---- MODULE Spec2Model ----
(***************************************************************************)
(* Model of the Lua scripting runtime of ftlman (src/src/lua.rs).          *)
(*                                                                         *)
(* The Lua heap is a set of named tables.  raw[t] is the raw content of    *)
(* table t (a function from the keys present to their values, an absent    *)
(* key is nil) and meta[t] is the metatable installed on t.  Values are    *)
(* strings: a value that is a member of TableIds is a reference to that    *)
(* table, every other string is an opaque scalar, function or userdata.    *)
(*                                                                         *)
(* The host program is the caller of ModLuaRuntime: it runs new() once     *)
(* and then any nesting of with_filesystems() and run() calls.  A script   *)
(* is a sequence of script operations executed between RunBegin and the    *)
(* end of the run.                                                         *)
(*                                                                         *)
(* The cache! macro (src/src/cache.rs) and the Linux installer of          *)
(* Hyperspace (src/src/hyperspace/linux.rs) are modelled after the Lua     *)
(* runtime, each with its own specification: CacheSpec and InstallerSpec.  *)
(***************************************************************************)
EXTENDS Integers, Sequences, FiniteSets, TLC

VARIABLES
    raw,      \* [TableIds -> [present keys -> value]]
    meta,     \* [TableIds -> metatable record]
    arena,    \* the gc arena: [roots, collections]
    pc,       \* position of the host: a bootstrap step, "idle", "body" or "script"
    stack,    \* the active with_filesystems calls, outermost first
    run,      \* the current run call: its inputs, the number of statements the
              \* script has executed and the kind of the last one
    result,   \* what the last returned call returned
    bootlog,  \* the protect / inject events of new(), in order
    diag,     \* the diagnostic events printed by the current (or last) run
    ncalls,   \* number of run and with_filesystems calls the host has made
    assigned, \* history: the global names scripts have assigned a value so far
    cache,    \* the response cache on disk and the last call of the cache! macro
    ftl       \* the game directory: the FTL start script, the installed
              \* libraries and the last call of the Hyperspace installer

vars == <<raw, meta, arena, pc, stack, run, result, bootlog, diag, ncalls, assigned,
          cache, ftl>>

----------------------------------------------------------------------------
(* Bounds of the model.                                                    *)

MaxSteps == 1
MaxDepth == 2
MaxCalls == 3
MaxRoots == 1

----------------------------------------------------------------------------
(* Values and tables.                                                      *)

Nil == "nil"

\* The vfs table created by the with_filesystems call at depth d.
VfsIds == <<"vfs1", "vfs2", "vfs3", "vfs4">>

VfsTables == {VfsIds[i] : i \in 1..Len(VfsIds)}

TableIds ==
    {"globals", "string", "luatable", "math", "package", "preload", "loaded",
     "searchers", "mod", "util", "iter", "mtable", "debug", "xml", "env"}
    \cup VfsTables

EmptyTable == [k \in {} |-> Nil]

IsTable(v) == v \in TableIds

RawGet(tbl, k) == IF k \in DOMAIN tbl THEN tbl[k] ELSE Nil

\* Assigning nil removes the key.
RawSet(tbl, k, v) ==
    IF v = Nil
    THEN [x \in DOMAIN tbl \ {k} |-> tbl[x]]
    ELSE [x \in DOMAIN tbl \cup {k} |-> IF x = k THEN v ELSE tbl[x]]

RawRemove(tbl, k) == RawSet(tbl, k, Nil)

\* A metatable: its __index handler, its __newindex handler and whether it
\* carries a __metatable field.
\*   index:    "none" | "raw_get" (a closure reading table target) | "table"
\*             (the table target itself is the handler)
\*   newindex: "none" | "error" | "raw_set" (a closure writing table store)
NoMeta ==
    [index |-> "none", target |-> "none", newindex |-> "none", store |-> "none",
     marker |-> FALSE]

\* setmetatable(t, {}) from a script.
ScriptMeta ==
    [index |-> "none", target |-> "script", newindex |-> "none", store |-> "none",
     marker |-> FALSE]

ProtectError == "attempt to update a protected table"

MetatableError == "cannot change a protected metatable"

ModuleNotFound == "module not found"

----------------------------------------------------------------------------
(* LuaExt: protect_table and create_overlay_table.                         *)

ProtectMetaUnmarked(t) ==
    [index |-> "raw_get", target |-> t, newindex |-> "error", store |-> "none",
     marker |-> FALSE]

\* The metatable protect_table builds for table t.
ProtectMeta(t) ==
    [index |-> "raw_get", target |-> t, newindex |-> "error", store |-> "none",
     marker |-> TRUE]

\* table.set_metatable(Some(metatable)): the host replaces whatever was there.
protect_table(m, t) == [m EXCEPT ![t] = ProtectMeta(t)]

RECURSIVE ProtectEach(_, _)
ProtectEach(m, ts) ==
    IF ts = {} THEN m
    ELSE LET t == CHOOSE x \in ts : TRUE
         IN ProtectEach(protect_table(m, t), ts \ {t})

OverlayStoreLower(upper, lower) == lower

\* The table the overlay's __newindex closure writes: upper_clone.
OverlayStore(upper, lower) == upper

OverlayMetaBlind(upper, lower) ==
    [index |-> "none", target |-> "none", newindex |-> "raw_set",
     store |-> OverlayStore(upper, lower), marker |-> TRUE]

\* The metatable create_overlay_table builds for upper over lower.
OverlayMeta(upper, lower) ==
    [index |-> "table", target |-> lower, newindex |-> "raw_set",
     store |-> OverlayStore(upper, lower), marker |-> TRUE]

IsProtected(m, t) == m[t].newindex = "error"

IsOverlay(m, t) == m[t].newindex = "raw_set"

----------------------------------------------------------------------------
(* Lua's table access as a script sees it.                                 *)

\* t[k]: the raw value when the key is present, else the __index handler.
RECURSIVE Index(_, _, _, _)
Index(r, m, t, k) ==
    IF k \in DOMAIN r[t] THEN r[t][k]
    ELSE IF m[t].index = "raw_get" THEN RawGet(r[m[t].target], k)
    ELSE IF m[t].index = "table" THEN Index(r, m, m[t].target, k)
    ELSE Nil

\* t[k] = v: a key that is present is assigned raw, without consulting the
\* metatable; an absent key goes to the __newindex handler when there is one.
\* The outcome is "ok" or the error raised.
AssignOutcome(r, m, t, k, v) ==
    IF k \in DOMAIN r[t] THEN "ok"
    ELSE IF m[t].newindex = "error" THEN ProtectError
    ELSE "ok"

AssignRaw(r, m, t, k, v) ==
    IF k \in DOMAIN r[t] THEN [r EXCEPT ![t] = RawSet(r[t], k, v)]
    ELSE IF m[t].newindex = "error" THEN r
    ELSE IF m[t].newindex = "raw_set"
         THEN [r EXCEPT ![m[t].store] = RawSet(r[m[t].store], k, v)]
    ELSE [r EXCEPT ![t] = RawSet(r[t], k, v)]

\* getmetatable(t): the __metatable field when the metatable has one.
GetMetatable(m, t) ==
    IF m[t] = NoMeta THEN Nil
    ELSE IF m[t].marker THEN "true"
    ELSE "metatable"

\* setmetatable(t, _) raises when the metatable has a __metatable field.
SetMetatableOutcome(m, t) == IF m[t].marker THEN MetatableError ELSE "ok"

----------------------------------------------------------------------------
(* The state new() starts from: a Lua state created with the table, string,*)
(* math and package libraries (and the base library).                      *)

InitRaw ==
    [t \in TableIds |->
        CASE t = "globals" ->
               [k \in {"_G", "dofile", "loadfile", "collectgarbage", "rawset",
                       "require", "string", "table", "math", "package"} |->
                   CASE k = "_G" -> "globals"
                     [] k = "string" -> "string"
                     [] k = "table" -> "luatable"
                     [] k = "math" -> "math"
                     [] k = "package" -> "package"
                     [] k = "dofile" -> "f_dofile"
                     [] k = "loadfile" -> "f_loadfile"
                     [] k = "collectgarbage" -> "f_collectgarbage"
                     [] k = "rawset" -> "f_rawset"
                     [] OTHER -> "f_require"]
          [] t = "string" -> [k \in {"format"} |-> "f_format"]
          [] t = "luatable" -> [k \in {"insert"} |-> "f_insert"]
          [] t = "math" -> [k \in {"floor"} |-> "f_floor"]
          [] t = "package" ->
               [k \in {"path", "cpath", "loadlib", "preload", "searchpath",
                       "loaded", "searchers"} |->
                   CASE k = "path" -> "default_path"
                     [] k = "cpath" -> "default_cpath"
                     [] k = "loadlib" -> "f_loadlib"
                     [] k = "preload" -> "preload"
                     [] k = "searchpath" -> "f_searchpath"
                     [] k = "loaded" -> "loaded"
                     [] OTHER -> "searchers"]
          [] t = "searchers" ->
               [k \in {"1", "2"} |->
                   IF k = "1" THEN "f_preload_searcher" ELSE "f_lua_searcher"]
          [] OTHER -> EmptyTable]

\* The cache and the game directory while the program does not use them.
NoCache == [store |-> << >>, last |-> "none"]

NoGameDir == [script |-> << >>, last |-> "none"]

NoRun == [active |-> FALSE, src |-> "none", doc |-> FALSE, steps |-> 0, last |-> "none"]

Init ==
    /\ raw = InitRaw
    /\ meta = [t \in TableIds |-> NoMeta]
    /\ arena = [attached |-> FALSE, roots |-> 0, collections |-> 0]
    /\ pc = "new"
    /\ stack = <<>>
    /\ run = NoRun
    /\ result = [op |-> "none", res |-> "none"]
    /\ bootlog = <<>>
    /\ diag = <<>>
    /\ ncalls = 0
    /\ assigned = {}
    /\ cache = NoCache
    /\ ftl = NoGameDir

----------------------------------------------------------------------------
(* ModLuaRuntime::new, one action per group of statements.                 *)

REQUIRE_PATH == "./?.lua;/data/?.lua;/?.lua"

RECURSIVE RemoveKeys(_, _)
RemoveKeys(tbl, ks) ==
    IF ks = {} THEN tbl
    ELSE LET k == CHOOSE x \in ks : TRUE
         IN RemoveKeys(RawRemove(tbl, k), ks \ {k})

\* The table-valued entries of a table.
SubTables(tbl) == {tbl[k] : k \in {x \in DOMAIN tbl : IsTable(tbl[x])}}

RECURSIVE LogAll(_, _, _)
LogAll(log, ev, ts) ==
    IF ts = {} THEN log
    ELSE LET t == CHOOSE x \in ts : TRUE
         IN LogAll(Append(log, <<ev, t>>), ev, ts \ {t})

Unstarted == <<run, result, diag, ncalls, assigned, stack>>

\* A bootstrap that leaves rawset in the globals.
NewRestrictGlobalsKeepsRawset ==
    /\ pc = "new"
    /\ raw' = [raw EXCEPT !["globals"] =
                 RemoveKeys(raw["globals"], {"dofile", "collectgarbage", "loadfile"})]
    /\ meta' = protect_table(protect_table(protect_table(meta,
                 RawGet(raw["globals"], "string")),
                 RawGet(raw["globals"], "table")),
                 RawGet(raw["globals"], "math"))
    /\ pc' = "setup_package"
    /\ UNCHANGED <<arena, bootlog, Unstarted, cache, ftl>>

\* lua.rs 101-109: remove the dangerous primitives, protect string/table/math.
NewRestrictGlobals ==
    /\ pc = "new"
    /\ raw' = [raw EXCEPT !["globals"] =
                 RemoveKeys(raw["globals"],
                            {"dofile", "collectgarbage", "loadfile", "rawset"})]
    /\ meta' = protect_table(protect_table(protect_table(meta,
                 RawGet(raw["globals"], "string")),
                 RawGet(raw["globals"], "table")),
                 RawGet(raw["globals"], "math"))
    /\ pc' = "setup_package"
    /\ UNCHANGED <<arena, bootlog, Unstarted, cache, ftl>>

\* The searcher vfssearcher.lua appends to package.searchers.
VfsSearcher == "f_vfssearcher"

\* lua.rs 152-167.
setup_package ==
    /\ pc = "setup_package"
    /\ LET package == RawGet(raw["globals"], "package")
           searchers == RawGet(raw[package], "searchers")
           pkg == RawSet(RemoveKeys(raw[package],
                            {"cpath", "loadlib", "preload", "searchpath"}),
                         "path", REQUIRE_PATH)
       IN raw' = [raw EXCEPT ![package] = pkg,
                             ![searchers] = RawSet(EmptyTable, "1", VfsSearcher)]
    /\ pc' = "seal_package"
    /\ UNCHANGED <<meta, arena, bootlog, Unstarted, cache, ftl>>

\* lua.rs 111-113: protect package, remove the shared namespace's _G alias.
NewSealPackage ==
    /\ pc = "seal_package"
    /\ meta' = protect_table(meta, RawGet(raw["globals"], "package"))
    /\ raw' = [raw EXCEPT !["globals"] = RawRemove(raw["globals"], "_G")]
    /\ pc' = "arena"
    /\ UNCHANGED <<arena, bootlog, Unstarted, cache, ftl>>

\* lua.rs 117-122: attach the arena, create lib_table and publish it as mod.
NewArena ==
    /\ pc = "arena"
    /\ arena' = [attached |-> TRUE, roots |-> 0, collections |-> 0]
    /\ raw' = [raw EXCEPT !["globals"] = RawSet(raw["globals"], "mod", "mod"),
                          !["mod"] = EmptyTable]
    /\ pc' = "builtins"
    /\ UNCHANGED <<meta, bootlog, Unstarted, cache, ftl>>

\* The sub-table each bundled helper script creates in mod, and its content.
BuiltinTables ==
    [k \in {"util", "iter", "table", "debug"} |->
        CASE k = "util" -> "util"
          [] k = "iter" -> "iter"
          [] k = "table" -> "mtable"
          [] OTHER -> "debug"]

BuiltinContent(t) ==
    IF t = "mtable" THEN [k \in {"insert"} |-> "f_mod_insert"]
    ELSE [k \in {"helper"} |-> "f_helper"]

\* lua.rs 124-127: util.lua, iterutil.lua, table.lua, debug.lua.
NewLoadBuiltins ==
    /\ pc = "builtins"
    /\ raw' = [t \in TableIds |->
                 IF t = "mod" THEN BuiltinTables
                 ELSE IF t \in SubTables(BuiltinTables) THEN BuiltinContent(t)
                 ELSE raw[t]]
    /\ pc' = "protect_subtables"
    /\ UNCHANGED <<meta, arena, bootlog, Unstarted, cache, ftl>>

\* lua.rs 129-134: protect every table-valued entry lib_table has now.
NewProtectSubtables ==
    /\ pc = "protect_subtables"
    /\ meta' = ProtectEach(meta, SubTables(raw["mod"]))
    /\ bootlog' = LogAll(bootlog, "protect", SubTables(raw["mod"]))
    /\ pc' = "xml"
    /\ UNCHANGED <<raw, arena, Unstarted, cache, ftl>>

\* xml::create_xml_lib: the library table of the document bridge.
create_xml_lib == [k \in {"element"} |-> "f_xml_element"]

\* lua.rs 136-139.
NewInstallXml ==
    /\ pc = "xml"
    /\ raw' = [raw EXCEPT !["xml"] = create_xml_lib,
                          !["mod"] = RawSet(raw["mod"], "xml", "xml")]
    /\ pc' = "extend_debug"
    /\ UNCHANGED <<meta, arena, bootlog, Unstarted, cache, ftl>>

\* An extension module injects its native functions into the sub-table.
ExtendLibrary(r, t) == [r EXCEPT ![t] = RawSet(r[t], "native", "f_native")]

\* lua.rs 141-142.
NewExtendDebug ==
    /\ pc = "extend_debug"
    /\ raw' = ExtendLibrary(raw, Index(raw, meta, "mod", "debug"))
    /\ bootlog' = Append(bootlog, <<"inject", Index(raw, meta, "mod", "debug")>>)
    /\ pc' = "extend_util"
    /\ UNCHANGED <<meta, arena, Unstarted, cache, ftl>>

\* lua.rs 144.
NewExtendUtil ==
    /\ pc = "extend_util"
    /\ raw' = ExtendLibrary(raw, Index(raw, meta, "mod", "util"))
    /\ bootlog' = Append(bootlog, <<"inject", Index(raw, meta, "mod", "util")>>)
    /\ pc' = "protect_lib"
    /\ UNCHANGED <<meta, arena, Unstarted, cache, ftl>>

\* lua.rs 146-149: protect lib_table and return the runtime.
NewProtectLib ==
    /\ pc = "protect_lib"
    /\ meta' = protect_table(meta, "mod")
    /\ bootlog' = Append(bootlog, <<"protect", "mod">>)
    /\ pc' = "idle"
    /\ result' = [op |-> "new", res |-> "ok"]
    /\ UNCHANGED <<raw, arena, run, diag, ncalls, assigned, stack, cache, ftl>>

Bootstrap ==
    \/ NewRestrictGlobals
    \/ setup_package
    \/ NewSealPackage
    \/ NewArena
    \/ NewLoadBuiltins
    \/ NewProtectSubtables
    \/ NewInstallXml
    \/ NewExtendDebug
    \/ NewExtendUtil
    \/ NewProtectLib

----------------------------------------------------------------------------
(* ModLuaRuntime::with_filesystems.                                        *)

\* The binding lists a caller passes: (name, filesystem) pairs in order.  A
\* name that converts to nil makes vfs.raw_set fail.
BindingLists ==
    { << <<"a", "fs1">>, <<"b", "fs2">> >>,
      << <<"a", "fs2">> >>,
      << <<"a", "fs1">>, <<Nil, "fs2">> >> }

\* The modules each filesystem holds.
FsHas(fs, name) == fs = "fs1" /\ name = "m"

ReturnPc(st) == IF Len(st) = 0 THEN "idle" ELSE "body"

RegistrationFails(bl) == \E i \in 1..Len(bl) : bl[i][1] = Nil

\* lua.rs 180-182: vfs.raw_set(name, userdata) for each pair.
RECURSIVE RegisterAll(_, _)
RegisterAll(tbl, bl) ==
    IF bl = <<>> THEN tbl
    ELSE RegisterAll(RawSet(tbl, bl[1][1], bl[1][2]), Tail(bl))

\* lua.rs 178-183: entry of with_filesystems up to the call of the body; a
\* failing registration returns the error before "vfs" is set.
WfsEnter(bl) ==
    /\ pc \in {"idle", "body"}
    /\ Len(stack) < MaxDepth
    /\ ncalls < MaxCalls
    /\ ncalls' = ncalls + 1
    /\ LET vid == VfsIds[Len(stack) + 1]
       IN IF RegistrationFails(bl)
          THEN /\ result' = [op |-> "with_filesystems", res |-> "error"]
               /\ UNCHANGED <<raw, meta, stack, pc>>
          ELSE /\ raw' = [raw EXCEPT ![vid] = RegisterAll(EmptyTable, bl),
                                     !["mod"] = RawSet(raw["mod"], "vfs", vid)]
               /\ meta' = protect_table(meta, vid)
               /\ stack' = Append(stack, [vfs |-> vid, binds |-> bl])
               /\ pc' = "body"
               /\ result' = [op |-> "none", res |-> "pending"]
    /\ UNCHANGED <<arena, run, bootlog, diag, assigned, cache, ftl>>

\* lua.rs 185-189: the body returned Ok or Err; remove "vfs" and return it.
\* The vfs table of the call is garbage from here on.
WfsBodyReturn(res) ==
    /\ pc = "body"
    /\ raw' = [raw EXCEPT !["mod"] = RawRemove(raw["mod"], "vfs"),
                          ![stack[Len(stack)].vfs] = EmptyTable]
    /\ meta' = [meta EXCEPT ![stack[Len(stack)].vfs] = NoMeta]
    /\ stack' = SubSeq(stack, 1, Len(stack) - 1)
    /\ pc' = ReturnPc(stack')
    /\ result' = [op |-> "with_filesystems", res |-> res]
    /\ UNCHANGED <<arena, run, bootlog, diag, ncalls, assigned, cache, ftl>>

\* lua.rs 185: the body panics; the unwinding leaves every active
\* with_filesystems frame without executing line 187.
WfsBodyPanic ==
    /\ pc = "body"
    /\ stack' = <<>>
    /\ pc' = "idle"
    /\ result' = [op |-> "with_filesystems", res |-> "panic"]
    /\ UNCHANGED <<raw, meta, arena, run, bootlog, diag, ncalls, assigned, cache, ftl>>

\* The userdata of a vfs table are valid while the scope that made them is.
ScopeActive(st, vid) == \E i \in 1..Len(st) : st[i].vfs = vid

----------------------------------------------------------------------------
(* ModLuaRuntime::run.                                                     *)

\* The statements a script is made of are drawn from these sets: the global
\* names and field names it assigns, the values it assigns, the tables it
\* reaches (as paths of names from its environment) and the modules it
\* requires.
ScriptKeys == {"x", "table"}

ScriptVals == {Nil, "v1"}

\* The field assignments: the table (a path of names) and the key.
ScriptWrites ==
    { << <<"mod", "table">>, "insert" >>,
      << <<"mod", "table">>, "x" >>,
      << <<"mod", "xml">>, "x" >>,
      << <<"package", "loaded">>, "x" >> }

\* The tables given to setmetatable; the empty path is the environment.
ScriptMetaPaths == { <<>>, <<"mod", "table">>, <<"mod", "xml">> }

Modules == {"m"}

Sources == {"text", "binary", "malformed"}

ChunkCompilesAnyMode(src) == src \in {"text", "binary"}

\* lua.rs 208-210: the chunk is loaded in text mode.
ChunkCompiles(src) == src = "text"

CompileError(src) ==
    IF src = "binary" THEN "attempt to load a binary chunk" ELSE "syntax error"

IndexError == "attempt to index a nil value"

\* lua.rs 53-71 for the table the run uses as its environment.
create_overlay_table(m, upper, lower) == [m EXCEPT ![upper] = OverlayMeta(upper, lower)]

\* lua.rs 196-206.
RunBegin(src, doc) ==
    /\ pc \in {"idle", "body"}
    /\ ncalls < MaxCalls
    /\ ncalls' = ncalls + 1
    /\ LET m1 == create_overlay_table(meta, "env", "globals")
           r1 == [raw EXCEPT !["env"] = RawSet(EmptyTable, "_G", "env")]
       IN /\ meta' = m1
          /\ raw' = IF doc THEN AssignRaw(r1, m1, "env", "document", "ud_document")
                    ELSE r1
    /\ run' = [active |-> TRUE, src |-> src, doc |-> doc, steps |-> 0, last |-> "none"]
    /\ pc' = "script"
    /\ result' = [op |-> "none", res |-> "pending"]
    /\ diag' = <<>>
    /\ UNCHANGED <<arena, stack, bootlog, assigned, cache, ftl>>

\* The run returns res to its caller, leaving heap r and metatables m; the
\* overlay is dropped with the call and is garbage from here on.
RunReturns(r, m, res) ==
    /\ raw' = [r EXCEPT !["env"] = EmptyTable]
    /\ meta' = [m EXCEPT !["env"] = NoMeta]
    /\ pc' = ReturnPc(stack)
    /\ run' = NoRun
    /\ result' = [op |-> "run", res |-> res]

\* lua.rs 208-212: load fails, exec()? returns the error.
RunCompileFail ==
    /\ pc = "script"
    /\ ~ChunkCompiles(run.src)
    /\ RunReturns(raw, meta, CompileError(run.src))
    /\ UNCHANGED <<arena, stack, bootlog, diag, ncalls, assigned, cache, ftl>>

Executing ==
    /\ pc = "script"
    /\ ChunkCompiles(run.src)

CanStep ==
    /\ Executing
    /\ run.steps < MaxSteps

\* A script statement of the given kind left heap r and metatables m: the
\* script goes on when it succeeded, and the run returns the error when it
\* raised one.
StepEnds(kind, r, m, outcome) ==
    IF outcome = "ok"
    THEN /\ raw' = r
         /\ meta' = m
         /\ run' = [run EXCEPT !.steps = @ + 1, !.last = kind]
         /\ UNCHANGED <<pc, result>>
    ELSE RunReturns(r, m, outcome)

\* The table a path of names leads to from table t, Nil when a name on the
\* way does not hold a table.
RECURSIVE Resolve(_, _, _, _)
Resolve(r, m, t, path) ==
    IF path = <<>> THEN t
    ELSE LET v == Index(r, m, t, Head(path))
         IN IF IsTable(v) THEN Resolve(r, m, v, Tail(path)) ELSE Nil

Target(path) == Resolve(raw, meta, "env", path)

\* A global assignment k = v of the script.
ScriptGlobalWrite(k, v) ==
    /\ CanStep
    /\ StepEnds("global", AssignRaw(raw, meta, "env", k, v), meta,
                AssignOutcome(raw, meta, "env", k, v))
    /\ assigned' = IF v = Nil THEN assigned ELSE assigned \cup {k}
    /\ UNCHANGED <<arena, stack, bootlog, diag, ncalls, cache, ftl>>

\* A field assignment path[k] = v of the script.
ScriptTableWrite(path, k, v) ==
    /\ CanStep
    /\ IF Target(path) = Nil
       THEN RunReturns(raw, meta, IndexError)
       ELSE StepEnds("field", AssignRaw(raw, meta, Target(path), k, v), meta,
                     AssignOutcome(raw, meta, Target(path), k, v))
    /\ UNCHANGED <<arena, stack, bootlog, diag, ncalls, assigned, cache, ftl>>

\* setmetatable(path, {}) of the script.
ScriptSetMetatable(path) ==
    /\ CanStep
    /\ IF Target(path) = Nil
       THEN RunReturns(raw, meta, IndexError)
       ELSE StepEnds("setmetatable", raw,
                     IF SetMetatableOutcome(meta, Target(path)) = "ok"
                     THEN [meta EXCEPT ![Target(path)] = ScriptMeta]
                     ELSE meta,
                     SetMetatableOutcome(meta, Target(path)))
    /\ UNCHANGED <<arena, stack, bootlog, diag, ncalls, assigned, cache, ftl>>

\* What the one installed searcher answers for a module name: it consults
\* the filesystems bound under mod.vfs.
SearcherOutcome(r, m, st, name) ==
    LET vfs == Index(r, m, Index(r, m, "globals", "mod"), "vfs")
    IN IF ~IsTable(vfs) THEN ModuleNotFound
       ELSE IF ~ScopeActive(st, vfs) THEN "userdata destructed"
       ELSE IF \E n \in DOMAIN r[vfs] : FsHas(r[vfs][n], name) THEN "ok"
       ELSE ModuleNotFound

\* require(name): package.loaded first, then the searchers.
RequireOutcome(r, m, st, name) ==
    LET searchers == Index(r, m, "package", "searchers")
    IN IF name \in DOMAIN r["loaded"] THEN "ok"
       ELSE IF ~IsTable(searchers) THEN "package.searchers must be a table"
       ELSE IF \A i \in DOMAIN r[searchers] : r[searchers][i] # VfsSearcher
            THEN ModuleNotFound
       ELSE SearcherOutcome(r, m, st, name)

\* require stores the value of a module it loaded in package.loaded.
RequireEffect(r, name, outcome) ==
    IF outcome = "ok" /\ name \notin DOMAIN r["loaded"]
    THEN [r EXCEPT !["loaded"] = RawSet(r["loaded"], name, "v_module")]
    ELSE r

\* require(name) of the script.
ScriptRequire(name) ==
    /\ CanStep
    /\ Index(raw, meta, "env", "require") = "f_require"
    /\ StepEnds("require", RequireEffect(raw, name, RequireOutcome(raw, meta, stack, name)),
                meta, RequireOutcome(raw, meta, stack, name))
    /\ UNCHANGED <<arena, stack, bootlog, diag, ncalls, assigned, cache, ftl>>

\* A native extension function (mod.xml.element) roots a value in the arena.
ScriptNativeAlloc ==
    /\ CanStep
    /\ arena.roots < MaxRoots
    /\ Target(<<"mod", "xml">>) # Nil
    /\ Index(raw, meta, Target(<<"mod", "xml">>), "element") = "f_xml_element"
    /\ arena' = [arena EXCEPT !.roots = @ + 1]
    /\ StepEnds("native", raw, meta, "ok")
    /\ UNCHANGED <<stack, bootlog, diag, ncalls, assigned, cache, ftl>>

\* The script raises an error of its own.
ScriptRaise ==
    /\ CanStep
    /\ RunReturns(raw, meta, "runtime error")
    /\ UNCHANGED <<arena, stack, bootlog, diag, ncalls, assigned, cache, ftl>>

\* lua.rs 216-227: the lines printed around the one collection.
ArenaStats ==
    <<"total_allocation", "total_gc_allocation", "allocation_debt", "collect_all",
      "total_gc_allocation", "total_allocation">>

\* A run that collects whenever the script has executed, whatever the flag.
RunFinishAlwaysCollects(stats) ==
    /\ Executing
    /\ arena' = [arena EXCEPT !.collections = @ + 1]
    /\ IF stats THEN diag' = ArenaStats ELSE UNCHANGED diag
    /\ RunReturns(raw, meta, "ok")
    /\ UNCHANGED <<stack, bootlog, ncalls, assigned, cache, ftl>>

\* lua.rs 212-230: exec returned Ok; print the arena statistics when
\* context.print_arena_stats (stats) is set.
RunFinish(stats) ==
    /\ Executing
    /\ IF stats
       THEN /\ diag' = ArenaStats
            /\ arena' = [arena EXCEPT !.collections = @ + 1]
       ELSE UNCHANGED <<diag, arena>>
    /\ RunReturns(raw, meta, "ok")
    /\ UNCHANGED <<stack, bootlog, ncalls, assigned, cache, ftl>>

ScriptStep ==
    \/ \E k \in ScriptKeys, v \in ScriptVals : ScriptGlobalWrite(k, v)
    \/ \E w \in ScriptWrites, v \in ScriptVals : ScriptTableWrite(w[1], w[2], v)
    \/ \E path \in ScriptMetaPaths : ScriptSetMetatable(path)
    \/ \E name \in Modules : ScriptRequire(name)
    \/ ScriptNativeAlloc
    \/ ScriptRaise

Run ==
    \/ \E src \in Sources, doc \in BOOLEAN : RunBegin(src, doc)
    \/ RunCompileFail
    \/ ScriptStep
    \/ \E stats \in BOOLEAN : RunFinish(stats)

WithFilesystems ==
    \/ \E bl \in BindingLists : WfsEnter(bl)
    \/ \E res \in {"ok", "error"} : WfsBodyReturn(res)
    \/ WfsBodyPanic

Next == Bootstrap \/ Run \/ WithFilesystems

Spec == Init /\ [][Next]_vars

----------------------------------------------------------------------------
(* The cache! macro, its "read or insert" form (src/src/cache.rs 3-17).    *)
(* cache.store is the content of the cache directory at the macro's path:  *)
(* a function from the keys that have an entry to the bytes stored;        *)
(* cache.last records the last expansion that ran.                         *)

luaVars == <<raw, meta, arena, pc, stack, run, result, bootlog, diag, ncalls, assigned>>

\* The state of the Lua runtime while a specification does not use it.
LuaUnused ==
    /\ raw = InitRaw
    /\ meta = [t \in TableIds |-> NoMeta]
    /\ arena = [attached |-> FALSE, roots |-> 0, collections |-> 0]
    /\ pc = "new"
    /\ stack = <<>>
    /\ run = NoRun
    /\ result = [op |-> "none", res |-> "none"]
    /\ bootlog = <<>>
    /\ diag = <<>>
    /\ ncalls = 0
    /\ assigned = {}

CacheKeys == {"k1", "k2", "k3"}

\* The values an insert block evaluates to.
InsertResults == {"r1", "r2"}

\* The bytes of a value: what write_sync stores of &result (AsRef<[u8]>)
\* and what result.into() is.
AsBytes(v) == CASE v = "r1" -> "bytes1" [] v = "r2" -> "bytes2" [] OTHER -> "bytes0"

\* What the cache directory can hold before the program first runs.
OldEntries == {"bytes0", "bytes1"}

\* The ways a cacache call can fail for reasons of the file system.
Faults == {"none", "io"}

\* cacache::read_sync(path, key).
read_sync(store, key, fault) ==
    IF fault # "none" THEN [tag |-> "error", data |-> "io error"]
    ELSE IF key \in DOMAIN store THEN [tag |-> "ok", data |-> store[key]]
    ELSE [tag |-> "not_found", data |-> "none"]

\* cacache::write_sync(path, key, data): the store afterwards.
write_sync(store, key, data, fault) ==
    IF fault # "none" THEN store
    ELSE [k \in DOMAIN store \cup {key} |-> IF k = key THEN data ELSE store[k]]

InsertNeededOnAnyError(rd) == rd.tag # "ok"

\* cache.rs 8: the arm that evaluates the insert block.
InsertNeeded(rd) == rd.tag = "not_found"

NoCall ==
    [key |-> "none", read |-> "none", evals |-> 0, ins |-> "none",
     wrote |-> FALSE, res |-> "none", data |-> "none"]

\* cache.rs 3-17: one expansion of cache!(read(path, key) or insert { ins }),
\* with the faults the read and the write meet.
cache_read_or_insert(key, ins, rfault, wfault) ==
    LET rd == read_sync(cache.store, key, rfault)
    IN /\ cache' =
            IF rd.tag = "ok"
            THEN [store |-> cache.store,
                  last |-> [key |-> key, read |-> "ok", evals |-> 0, ins |-> "none",
                            wrote |-> FALSE, res |-> "ok", data |-> rd.data]]
            ELSE IF InsertNeeded(rd)
            THEN IF wfault # "none"
                 THEN [store |-> write_sync(cache.store, key, AsBytes(ins), wfault),
                       last |-> [key |-> key, read |-> rd.tag, evals |-> 1, ins |-> ins,
                                 wrote |-> FALSE, res |-> "err",
                                 data |-> "write error"]]
                 ELSE [store |-> write_sync(cache.store, key, AsBytes(ins), wfault),
                       last |-> [key |-> key, read |-> rd.tag, evals |-> 1, ins |-> ins,
                                 wrote |-> TRUE, res |-> "ok",
                                 data |-> AsBytes(ins)]]
            ELSE [store |-> cache.store,
                  last |-> [key |-> key, read |-> rd.tag, evals |-> 0, ins |-> "none",
                            wrote |-> FALSE, res |-> "err",
                            data |-> "Failed to retrieve cached response"]]
       /\ UNCHANGED <<luaVars, ftl>>

CacheInit ==
    /\ LuaUnused
    /\ ftl = NoGameDir
    /\ \E ks \in SUBSET CacheKeys :
          \E st \in [ks -> OldEntries] : cache = [store |-> st, last |-> NoCall]

CacheNext ==
    \E key \in CacheKeys, ins \in InsertResults, rfault \in Faults, wfault \in Faults :
        cache_read_or_insert(key, ins, rfault, wfault)

CacheSpec == CacheInit /\ [][CacheNext]_vars

----------------------------------------------------------------------------
(* The Linux installer of Hyperspace (src/src/hyperspace/linux.rs).        *)
(*                                                                         *)
(* The start script is a text: its lines in order and whether the last     *)
(* line ends with a newline.  A line is the literal it starts with (head),*)
(* then a word in optional quotes (quote body quote), then the rest of the *)
(* line (tail).  The regular expressions are modelled by the lines they    *)
(* match; all of them are compiled in multi-line mode, so ^ and $ match    *)
(* at the line ends.                                                       *)

MaxLines == 3

LLP == "export LD_LIBRARY_PATH="

PRELOAD == "export LD_PRELOAD="

EXEC == "exec "

MkLine(h, q, b, t) == [head |-> h, quote |-> q, body |-> b, tail |-> t]

\* The lines start scripts are made of.
ScriptLines ==
    { MkLine("#!/bin/sh", "", "", ""),
      MkLine(EXEC, "\"", "$here/FTL.amd64", " \"$@\""),
      MkLine(EXEC, "", "$here/FTL.amd64", " \"$@\""),
      MkLine(LLP, "", "/opt/lib", ""),
      MkLine(PRELOAD, "\"", "Hyperspace.1.6.12.amd64.so", ""),
      MkLine(PRELOAD, "", "libfoo.so", "") }

\* linux.rs 36, 87: the size of the FTL 1.6.13 binary.
KnownBinarySize == 72443660

\* The FTL.amd64 of a game directory: the known binary, another one, none.
Binaries ==
    { [exists |-> TRUE, len |-> KnownBinarySize],
      [exists |-> TRUE, len |-> KnownBinarySize - 1],
      [exists |-> FALSE, len |-> 0] }

\* The file names of the Hyperspace zip.
ZipNames == {"Linux/Hyperspace.1.6.13.amd64.so", "Windows/Hyperspace.dll"}

\* linux.rs 25: ZIP_SO_REGEX, ^Linux/[^/]+(\.[^.]+)*\.so(\.[^.]+)*$.
ZIP_SO_REGEX(name) == name = "Linux/Hyperspace.1.6.13.amd64.so"

\* linux.rs 56: obj.strip_prefix("Linux/").
strip_prefix(name) ==
    IF name = "Linux/Hyperspace.1.6.13.amd64.so" THEN "Hyperspace.1.6.13.amd64.so"
    ELSE name

SetMin(S) == CHOOSE x \in S : \A y \in S : x <= y

\* Line i of text t is followed by a newline.
Terminated(t, i) == i < Len(t.lines) \/ t.eofnl

LibraryPathNeverFound(t) == {}

\* linux.rs 12-15: ^export LD_LIBRARY_PATH=(.*?)$ -- the lines it matches.
LD_LIBRARY_PATH_REGEX(t) == {i \in 1..Len(t.lines) : t.lines[i].head = LLP}

\* linux.rs 16-19: ^export LD_PRELOAD=(.*?)\n -- the lines it matches; the
\* match takes the newline in.
LD_PRELOAD_REGEX(t) ==
    {i \in 1..Len(t.lines) : t.lines[i].head = PRELOAD /\ Terminated(t, i)}

\* linux.rs 20-23: ^exec "[^"]*" .*?$ -- the lines it matches.
EXEC_REGEX(t) ==
    {i \in 1..Len(t.lines) :
        /\ t.lines[i].head = EXEC
        /\ t.lines[i].quote = "\""
        /\ t.lines[i].tail = " \"$@\""}

\* linux.rs 95: group.as_str().trim_matches(['\'', '"']) for the group
\* quote body quote tail; a tail keeps the closing quote inside.
trim_matches(line) ==
    IF line.tail = "" THEN line.body ELSE "untrimmed"

\* linux.rs 24: ^Hyperspace(\.\d+)*.amd64.so$.
HYPERSPACE_SO_REGEX(text) ==
    text \in {"Hyperspace.1.6.12.amd64.so", "Hyperspace.1.6.13.amd64.so"}

\* script.insert_str(range.start, s) for a line s and the start of line i.
insert_str(t, i, line) ==
    [t EXCEPT !.lines = SubSeq(@, 1, i - 1) \o <<line>> \o SubSeq(@, i, Len(@))]

\* An empty file has no last line.
Text(lines, eofnl) == [lines |-> lines, eofnl |-> eofnl /\ lines # <<>>]

\* linux.rs 75: the export install adds for the library path.
LibraryPathExport == MkLine(LLP, "\"", "$here:$LD_LIBRARY_PATH", "")

\* linux.rs 87-92: the library to preload for the binary, and its export.
HyperspaceObject(binary) ==
    IF binary.len = KnownBinarySize THEN "Hyperspace.1.6.13.amd64.so"
    ELSE "Hyperspace.1.6.12.amd64.so"

PreloadExport(obj) == MkLine(PRELOAD, "", obj, "")

\* linux.rs 77-84: add the library path export before the exec line unless
\* the script has such an export already.
PatchLibraryPath(t, start) ==
    IF LD_LIBRARY_PATH_REGEX(t) # {} THEN t
    ELSE insert_str(t, start, LibraryPathExport)

\* linux.rs 92-103: point the first LD_PRELOAD export at obj when it names a
\* Hyperspace library, leave it when it names something else, and add one
\* when there is none; range.start is still the index found at line 72.
PatchPreload(t, start, obj) ==
    IF LD_PRELOAD_REGEX(t) # {}
    THEN LET i == SetMin(LD_PRELOAD_REGEX(t))
         IN IF HYPERSPACE_SO_REGEX(trim_matches(t.lines[i]))
            THEN [t EXCEPT !.lines[i] = PreloadExport(obj)]
            ELSE t
    ELSE insert_str(t, start, PreloadExport(obj))

\* linux.rs 72-108: the result of patching and the text written, if any.
PatchedScript(t, binary) ==
    IF EXEC_REGEX(t) = {} THEN [res |-> "ok", wrote |-> TRUE, script |-> t]
    ELSE IF ~binary.exists THEN [res |-> "err", wrote |-> FALSE, script |-> t]
    ELSE [res |-> "ok", wrote |-> TRUE,
          script |-> PatchPreload(PatchLibraryPath(t, SetMin(EXEC_REGEX(t))),
                                  SetMin(EXEC_REGEX(t)), HyperspaceObject(binary))]

InstallFaults == {"none", "copy", "read"}

\* linux.rs 47-111: LinuxInstaller::install.  A fault is an i/o error while
\* copying the libraries or while reading the script.
install(fault) ==
    /\ IF fault = "copy"
       THEN ftl' = [ftl EXCEPT !.last = [op |-> "install", res |-> "err",
                                         wrote |-> FALSE, prev |-> <<@.op, @.res>>]]
       ELSE LET files == ftl.files \cup
                           {strip_prefix(z) : z \in {x \in ZipNames : ZIP_SO_REGEX(x)}}
                out == PatchedScript(ftl.script, ftl.binary)
            IN IF fault = "read"
               THEN ftl' = [ftl EXCEPT !.files = files,
                                       !.last = [op |-> "install", res |-> "err",
                                                 wrote |-> FALSE, prev |-> <<@.op, @.res>>]]
               ELSE ftl' = [ftl EXCEPT !.files = files,
                                       !.script = out.script,
                                       !.last = [op |-> "install", res |-> out.res,
                                                 wrote |-> out.wrote, prev |-> <<@.op, @.res>>]]
    /\ UNCHANGED <<luaVars, cache>>

\* LD_PRELOAD_REGEX.replace_all(&script, ""): every match is cut out with its
\* newline.
replace_all(t) ==
    LET keep == {i \in 1..Len(t.lines) : i \notin LD_PRELOAD_REGEX(t)}
        RECURSIVE Kept(_)
        Kept(i) == IF i > Len(t.lines) THEN <<>>
                   ELSE IF i \in keep THEN <<t.lines[i]>> \o Kept(i + 1)
                   ELSE Kept(i + 1)
    IN Text(Kept(1), t.eofnl)

\* linux.rs 113-124: LinuxInstaller::disable.
disable(fault) ==
    /\ IF fault = "read"
       THEN ftl' = [ftl EXCEPT !.last = [op |-> "disable", res |-> "err",
                                         wrote |-> FALSE, prev |-> <<@.op, @.res>>]]
       ELSE IF LD_PRELOAD_REGEX(ftl.script) # {}
       THEN ftl' = [ftl EXCEPT !.script = replace_all(ftl.script),
                               !.last = [op |-> "disable", res |-> "ok",
                                         wrote |-> TRUE, prev |-> <<@.op, @.res>>]]
       ELSE ftl' = [ftl EXCEPT !.last = [op |-> "disable", res |-> "ok",
                                         wrote |-> FALSE, prev |-> <<@.op, @.res>>]]
    /\ UNCHANGED <<luaVars, cache>>

\* The texts of at most n lines.
RECURSIVE LinesUpTo(_)
LinesUpTo(n) ==
    IF n = 0 THEN {<<>>}
    ELSE LinesUpTo(n - 1) \cup
         {Append(ls, l) : ls \in {x \in LinesUpTo(n - 1) : Len(x) = n - 1}, l \in ScriptLines}

InstallerInit ==
    /\ LuaUnused
    /\ cache = NoCache
    /\ \E ls \in LinesUpTo(MaxLines), nl \in BOOLEAN, b \in Binaries :
          ftl = [script |-> Text(ls, nl), binary |-> b, files |-> {},
                 last |-> [op |-> "none", res |-> "none", wrote |-> FALSE,
                           prev |-> <<"none", "none">>]]

InstallerNext ==
    \/ \E fault \in InstallFaults : install(fault)
    \/ \E fault \in {"none", "read"} : disable(fault)

InstallerSpec == InstallerInit /\ [][InstallerNext]_vars

----------------------------------------------------------------------------
(* The claims.                                                             *)

\* Everything but the run's own overlay: what a later run can observe.
SharedTables == TableIds \ {"env"}

SharedRaw == [t \in SharedTables |-> raw[t]]

SharedMeta == [t \in SharedTables |-> meta[t]]

Wrapped(m, t) == IsProtected(m, t) \/ IsOverlay(m, t)

GlobalWriteStep(k, v) == ScriptGlobalWrite(k, v)

\* The shared namespace as new() leaves it.
GlobalsAfterNew ==
    [k \in {"require", "string", "table", "math", "package", "mod"} |->
        CASE k = "require" -> "f_require"
          [] k = "table" -> "luatable"
          [] OTHER -> k]

\* C1: a script assignment T[K] = V to a protected table T fails with
\* "attempt to update a protected table" and leaves T unchanged, whether K is
\* present in T or not.
C1_ProtectedWriteFails ==
    [][\A w \in ScriptWrites, v \in ScriptVals :
          (/\ ScriptTableWrite(w[1], w[2], v)
           /\ Target(w[1]) # Nil
           /\ IsProtected(meta, Target(w[1])))
          => (/\ result'.res = ProtectError
              /\ raw'[Target(w[1])] = raw[Target(w[1])])]_vars

C3_OverlayWriteKeepsLower ==
    [][\A k \in ScriptKeys, v \in ScriptVals :
          GlobalWriteStep(k, v)
          => (/\ raw'["globals"] = raw["globals"]
              /\ RawGet(raw'["globals"], k) = RawGet(raw["globals"], k))]_vars

\* The script has assigned a name the lower table holds: the upper table has
\* the new value, the lower table its own.
C3_Witness ==
    /\ pc = "script"
    /\ run.last = "global"
    /\ RawGet(raw["env"], "table") = "v1"
    /\ RawGet(raw["globals"], "table") = "luatable"

\* C4 as claimed: after K = V through the overlay, reading K from the
\* overlay yields V, for every value V a script can assign.
C4_ReadsWrittenValue ==
    [][\A k \in ScriptKeys, v \in ScriptVals :
          GlobalWriteStep(k, v) => Index(raw', meta', "env", k) = v]_vars

\* C4 amended: after K = V with V not nil the overlay reads K as V; after
\* K = nil it reads K as the lower table's value; and every key that is not
\* in the upper table reads as the lower table's value.
C4_ReadsUpperThenLower ==
    [][\A k \in ScriptKeys, v \in ScriptVals :
          GlobalWriteStep(k, v)
          => (/\ v # Nil => Index(raw', meta', "env", k) = v
              /\ v = Nil => Index(raw', meta', "env", k) = RawGet(raw["globals"], k)
              /\ \A j \in ScriptKeys \cup {"require", "mod"} :
                    j \notin DOMAIN raw'["env"]
                    => Index(raw', meta', "env", j) = RawGet(raw["globals"], j))]_vars

\* The script's last statement assigned nil to a global name (a value would
\* have left the name in the upper table): table reads as the lower table's
\* entry.
C4_Witness ==
    /\ pc = "script"
    /\ run.last = "global"
    /\ DOMAIN raw["env"] = {"_G"}
    /\ Index(raw, meta, "env", "table") = "luatable"

\* C5: once a with_filesystems call has returned to the host, on whatever
\* exit path (Ok, error, failed registration, panic), the capability table
\* has no "vfs" entry.
C5_VfsRemovedOnReturn ==
    (result.op = "with_filesystems" /\ stack = <<>>) => "vfs" \notin DOMAIN raw["mod"]

\* C6: a require made in a run after the with_filesystems call has returned
\* (no binding is active) fails.
C6_RequireFailsAfterReturn ==
    [][\A name \in Modules :
          (ScriptRequire(name) /\ stack = <<>>)
          => (result'.op = "run" /\ result'.res # "ok")]_vars

\* C7: when new() has returned, mod and every table-valued entry of mod is
\* protected.
C7_AllProtectedAfterNew ==
    result.op = "new"
    => (/\ IsProtected(meta, "mod")
        /\ \A t \in SubTables(raw["mod"]) : IsProtected(meta, t))

\* C8: a run given a binary chunk returns a compile error, executes no
\* statement of it and changes nothing a later run can observe.
C8_BinaryChunkRejected ==
    [][((pc = "script" /\ run.src = "binary") \/ (pc' = "script" /\ run'.src = "binary"))
       => (/\ SharedRaw' = SharedRaw
           /\ SharedMeta' = SharedMeta
           /\ arena' = arena
           /\ assigned' = assigned
           /\ pc = "script"
              => (/\ run.steps = 0
                  /\ pc' # "script"
                  /\ result' = [op |-> "run", res |-> CompileError("binary")]))]_vars

\* A run of a binary chunk has returned its compile error.
C8_Witness ==
    result = [op |-> "run", res |-> "attempt to load a binary chunk"]

\* C9: no step of a run changes the shared tables.
C9_RunKeepsSharedState ==
    [][(pc = "script" \/ pc' = "script") => SharedRaw' = SharedRaw]_vars

\* C10: no script operation changes the metatable of a protected table or of
\* a live overlay, and getmetatable answers with the marker, not the
\* metatable.
C10_WrapperFixed ==
    [][pc = "script"
       => \A t \in TableIds :
             (Wrapped(meta, t) /\ (t # "env" \/ pc' = "script"))
             => (/\ meta'[t] = meta[t]
                 /\ GetMetatable(meta', t) = "true")]_vars

\* A script called setmetatable on a protected table or on its environment
\* and the call raised.
C10_Witness ==
    /\ result = [op |-> "run", res |-> MetatableError]
    /\ IsProtected(meta, "mtable")

\* The content each protected table had when protect_table was called on it:
\* the libraries as the Lua state came with them, package as setup_package
\* left it, the bundled sub-tables as their scripts filled them, mod with
\* its five sub-tables, and a vfs table empty (create_protected_table).
ContentWhenProtected(t) ==
    CASE t \in {"string", "luatable", "math"} -> InitRaw[t]
      [] t = "package" ->
           [k \in {"path", "loaded", "searchers"} |->
               IF k = "path" THEN REQUIRE_PATH ELSE k]
      [] t \in SubTables(BuiltinTables) -> BuiltinContent(t)
      [] t = "mod" -> RawSet(BuiltinTables, "xml", "xml")
      [] OTHER -> EmptyTable

\* The keys a read is tried with: every key some table holds and one that
\* no table holds.
ReadKeys == UNION {DOMAIN raw[t] : t \in TableIds} \cup {"x", "insert", "vfs"}

\* C11: a read T[K] of a protected table T yields the value stored under K
\* in T (nil for an absent key, a value the host stored with a raw write
\* included), and a key T held when it was protected still reads as the
\* value it had then.
C11_ProtectedReadOriginal ==
    \A t \in TableIds :
        IsProtected(meta, t)
        => (/\ \A k \in ReadKeys : Index(raw, meta, t, k) = RawGet(raw[t], k)
            /\ \A k \in DOMAIN ContentWhenProtected(t) :
                  Index(raw, meta, t, k) = ContentWhenProtected(t)[k])

\* C12: in the order of the bootstrap steps, no protect_table call on a
\* sub-table of mod precedes the injection of an extension into that same
\* sub-table.
C12_InjectBeforeProtect ==
    \A i, j \in 1..Len(bootlog) :
        (i < j /\ bootlog[j][1] = "inject")
        => bootlog[i] # <<"protect", bootlog[j][2]>>

\* C13: a run with print_arena_stats set whose script has executed emits
\* total allocation, GC-tracked allocation and allocation debt, then one
\* full collection, then the same three figures again in the same order.
C13_StatsTwiceSameOrder ==
    diag # <<>>
    => diag = <<"total_allocation", "total_gc_allocation", "allocation_debt",
                "collect_all",
                "total_allocation", "total_gc_allocation", "allocation_debt">>

\* C14: the arena is collected only by the diagnostics step of a run, after
\* the script has finished without error and only when print_arena_stats is
\* set, once; no statement of a script collects, and a run that fails or has
\* the flag unset returns with the arena as the script left it.
C14_CollectOnlyInDiagnostics ==
    [][/\ arena'.collections # arena.collections
          => (/\ Executing
              /\ pc' # "script"
              /\ result' = [op |-> "run", res |-> "ok"]
              /\ diag' = ArenaStats
              /\ arena'.collections = arena.collections + 1)
       /\ (pc = "script" /\ pc' # "script") => arena'.roots = arena.roots
       /\ (pc = "script" /\ pc' # "script" /\ diag' = <<>>) => arena' = arena]_vars

\* A script rooted a value in the arena and the run then printed the
\* statistics: one collection, after the script.
C14_Witness ==
    /\ result = [op |-> "run", res |-> "ok"]
    /\ diag = ArenaStats
    /\ arena.roots = 1
    /\ arena.collections = 1

\* C15: while the body of a with_filesystems call is executing, also after
\* a call nested in it has returned, mod has a "vfs" entry and that table
\* holds exactly the bindings given to the innermost call still active.
C15_VfsStackDiscipline ==
    stack # <<>>
    => (/\ "vfs" \in DOMAIN raw["mod"]
        /\ IsTable(RawGet(raw["mod"], "vfs"))
        /\ raw[RawGet(raw["mod"], "vfs")]
             = RegisterAll(EmptyTable, stack[Len(stack)].binds))

\* C16: the document handle is bound per call: the shared namespace never
\* has a "document" entry, a run whose context carries a document root
\* starts with the handle under "document" in its own upper table, and a run
\* whose context carries none starts with "document" reading nil, whatever
\* runs came before it.
C16_DocumentPerCall ==
    /\ "document" \notin DOMAIN raw["globals"]
    /\ (pc = "script" /\ run.steps = 0)
       => (/\ run.doc => RawGet(raw["env"], "document") = "ud_document"
           /\ Index(raw, meta, "env", "document")
                = IF run.doc THEN "ud_document" ELSE Nil)
    /\ pc # "script" => "document" \notin DOMAIN raw["env"]

\* A later run of the runtime has its document bound in its overlay only.
C16_Witness ==
    /\ pc = "script"
    /\ run.doc
    /\ ncalls > 1
    /\ Index(raw, meta, "env", "document") = "ud_document"
    /\ Index(raw, meta, "globals", "document") = Nil

\* The primitives new() removes from the globals.
RemovedPrimitives == {"dofile", "loadfile", "collectgarbage", "rawset"}

\* C17: once new() has returned, the shared namespace holds none of dofile,
\* loadfile, collectgarbage, rawset and no "_G"; in every run each of these
\* names reads nil through the overlay and "_G" reads as the overlay itself.
C17_PrimitivesRemoved ==
    pc \in {"idle", "body", "script"}
    => (/\ RemovedPrimitives \cap DOMAIN raw["globals"] = {}
        /\ "_G" \notin DOMAIN raw["globals"]
        /\ pc = "script"
           => (/\ \A k \in RemovedPrimitives : Index(raw, meta, "env", k) = Nil
               /\ Index(raw, meta, "env", "_G") = "env"))

\* A script of a later run is executing in a state made from globals that
\* had the primitives and the alias.
C17_Witness ==
    /\ pc = "script"
    /\ ncalls > 1
    /\ run.steps > 0
    /\ RemovedPrimitives \cup {"_G"} \subseteq DOMAIN InitRaw["globals"]
    /\ Index(raw, meta, "env", "rawset") = Nil
    /\ Index(raw, meta, "env", "_G") = "env"

\* C18 as claimed: an expansion whose read finds the entry returns its data
\* without evaluating the insert block; one whose read finds no entry
\* evaluates the block once, writes the result under the key and returns it,
\* and an expansion with the same key right after it returns that data
\* without evaluating its block; any other read error is returned, the block
\* is not evaluated and nothing is written.
C18_ReadOrInsert ==
    [][\A key \in CacheKeys, ins \in InsertResults, rf \in Faults, wf \in Faults :
          cache_read_or_insert(key, ins, rf, wf)
          => LET rd == read_sync(cache.store, key, rf)
                 call == cache'.last
             IN /\ rd.tag = "ok"
                   => (/\ call.res = "ok" /\ call.data = cache.store[key]
                       /\ call.evals = 0
                       /\ cache'.store = cache.store)
                /\ rd.tag = "not_found"
                   => (/\ call.evals = 1
                       /\ key \in DOMAIN cache'.store
                       /\ cache'.store[key] = AsBytes(ins)
                       /\ call.res = "ok" /\ call.data = AsBytes(ins))
                /\ (rd.tag = "ok" /\ cache.last.key = key
                      /\ cache.last.read = "not_found")
                   => (call.data = AsBytes(cache.last.ins) /\ call.evals = 0)
                /\ rd.tag = "error"
                   => (/\ call.res = "err"
                       /\ call.evals = 0
                       /\ cache'.store = cache.store)]_vars

\* C18 amended: as claimed when the write succeeds; when the write fails,
\* the block has been evaluated once, the write's error is returned and the
\* cache is unchanged, so the next expansion with the key evaluates its
\* block again.
C18_ReadOrInsertUnlessWriteFails ==
    [][\A key \in CacheKeys, ins \in InsertResults, rf \in Faults, wf \in Faults :
          cache_read_or_insert(key, ins, rf, wf)
          => LET rd == read_sync(cache.store, key, rf)
                 call == cache'.last
             IN /\ rd.tag = "ok"
                   => (/\ call.res = "ok" /\ call.data = cache.store[key]
                       /\ call.evals = 0
                       /\ cache'.store = cache.store)
                /\ (rd.tag = "not_found" /\ wf = "none")
                   => (/\ call.evals = 1
                       /\ key \in DOMAIN cache'.store
                       /\ cache'.store[key] = AsBytes(ins)
                       /\ \A k \in CacheKeys \ {key} :
                             /\ k \in DOMAIN cache'.store <=> k \in DOMAIN cache.store
                             /\ k \in DOMAIN cache.store
                                => cache'.store[k] = cache.store[k]
                       /\ call.res = "ok" /\ call.data = AsBytes(ins))
                /\ (rd.tag = "not_found" /\ wf # "none")
                   => (/\ call.evals = 1
                       /\ call.res = "err"
                       /\ cache'.store = cache.store)
                /\ (rd.tag = "ok" /\ cache.last.key = key
                      /\ cache.last.read = "not_found" /\ cache.last.wrote)
                   => (call.data = AsBytes(cache.last.ins) /\ call.evals = 0)
                /\ rd.tag = "error"
                   => (/\ call.res = "err"
                       /\ call.evals = 0
                       /\ cache'.store = cache.store)]_vars

\* An expansion found no entry, evaluated its block and stored the result,
\* and the expansion after it, with an insert block of another value, has
\* just returned the stored data without evaluating the block.
C18_Witness ==
    /\ cache.last.key = "k1"
    /\ cache.last.read = "ok"
    /\ cache.last.evals = 0
    /\ cache.last.data = "bytes2"
    /\ cache.store["k1"] = "bytes2"

\* C19: an install that follows a successful install leaves the start
\* script as that one left it, with the same number of LD_LIBRARY_PATH and
\* of LD_PRELOAD exports, for every start script and binary; and an install
\* on a script without exec line writes the script back unchanged.
C19_InstallIdempotent ==
    [][/\ (install("none") /\ ftl.last.op = "install" /\ ftl.last.res = "ok")
          => (/\ ftl'.script = ftl.script
              /\ Cardinality(LD_LIBRARY_PATH_REGEX(ftl'.script))
                   = Cardinality(LD_LIBRARY_PATH_REGEX(ftl.script))
              /\ Cardinality({i \in 1..Len(ftl'.script.lines) :
                                 ftl'.script.lines[i].head = PRELOAD})
                   = Cardinality({i \in 1..Len(ftl.script.lines) :
                                     ftl.script.lines[i].head = PRELOAD}))
       /\ (install("none") /\ EXEC_REGEX(ftl.script) = {})
          => (/\ ftl'.script = ftl.script
              /\ ftl'.last.res = "ok"
              /\ ftl'.last.wrote)]_vars

\* Two installs in a row have succeeded on a script that was its exec line
\* alone: the script has the two exports once, before the exec line.
C19_Witness ==
    /\ ftl.last.op = "install"
    /\ ftl.last.res = "ok"
    /\ ftl.last.prev = <<"install", "ok">>
    /\ ftl.script.lines
         = << PreloadExport(HyperspaceObject(ftl.binary)), LibraryPathExport,
              MkLine(EXEC, "\"", "$here/FTL.amd64", " \"$@\"") >>

IsPreloadExport(line) == line.head = PRELOAD

IsOtherLine(line) == ~IsPreloadExport(line)

\* C20: disable removes every "export LD_PRELOAD=..." line of the start
\* script, whatever its value, and leaves all other lines as they are and in
\* their order; it writes the script only when it has such a line; after it
\* the script has no LD_PRELOAD export.
C20_DisableRemovesPreload ==
    [][disable("none")
       => (/\ ftl'.script.lines = SelectSeq(ftl.script.lines, IsOtherLine)
           /\ ftl'.last.wrote
                <=> (\E i \in 1..Len(ftl.script.lines) :
                        IsPreloadExport(ftl.script.lines[i]))
           /\ \A i \in 1..Len(ftl'.script.lines) :
                 ~IsPreloadExport(ftl'.script.lines[i]))]_vars

====
